---------------------------- MODULE Spec2Model ----------------------------
(***************************************************************************)
(* mf-statement: the streaming CSV filter-parser, the optimized            *)
(* transaction/statement services and the JSON file writer, as one state   *)
(* machine per generation request.                                         *)
(*                                                                         *)
(* A Go string is a sequence of one-character strings; a CSV record is a   *)
(* sequence of such strings (encoding/csv has already split the fields).   *)
(* int64 is modelled as a two's-complement integer of IntBits bits.        *)
(***************************************************************************)
EXTENDS Integers, Sequences, FiniteSets, TLC

(***************************************************************************)
(* Bounds of the model.                                                    *)
(***************************************************************************)
MaxRows == 3
MaxRowsOtherHeaders == 1
IntBits == 4
MaxTextLen == 3

(***************************************************************************)
(* Integers of the width of int64 (scaled to IntBits bits).                *)
(***************************************************************************)
RECURSIVE Pow2(_)
Pow2(n) == IF n = 0 THEN 1 ELSE 2 * Pow2(n - 1)

MaxInt64 == Pow2(IntBits - 1) - 1
MinInt64 == 0 - Pow2(IntBits - 1)

\* Two's-complement wrap of a mathematical integer into the int64 range.
Wrap64(n) == ((n - MinInt64) % Pow2(IntBits)) + MinInt64

\* Go's int64 "+": wraps silently on overflow.
AddInt64(a, b) == Wrap64(a + b)

(***************************************************************************)
(* Strings.                                                                *)
(***************************************************************************)
BOM == "<FEFF>"
WhiteSpace == {" ", "\t"}
Digits == {"0", "1", "2", "3", "4", "5", "6", "7", "8", "9"}

DigitVal(c) ==
  CASE c = "0" -> 0 [] c = "1" -> 1 [] c = "2" -> 2 [] c = "3" -> 3
    [] c = "4" -> 4 [] c = "5" -> 5 [] c = "6" -> 6 [] c = "7" -> 7
    [] c = "8" -> 8 [] c = "9" -> 9

DigitChar(d) ==
  CASE d = 0 -> "0" [] d = 1 -> "1" [] d = 2 -> "2" [] d = 3 -> "3"
    [] d = 4 -> "4" [] d = 5 -> "5" [] d = 6 -> "6" [] d = 7 -> "7"
    [] d = 8 -> "8" [] d = 9 -> "9"

\* unicode.ToLower on the letters the model uses; every other character is
\* its own lower case.
ToLower(c) ==
  CASE c = "A" -> "a" [] c = "C" -> "c" [] c = "D" -> "d" [] c = "E" -> "e"
    [] c = "M" -> "m" [] c = "N" -> "n" [] c = "O" -> "o" [] c = "T" -> "t"
    [] c = "U" -> "u" [] OTHER -> c

\* strings.TrimSpace
RECURSIVE TrimLeft(_)
TrimLeft(s) ==
  IF s # <<>> /\ Head(s) \in WhiteSpace THEN TrimLeft(Tail(s)) ELSE s

RECURSIVE TrimRight(_)
TrimRight(s) ==
  IF s # <<>> /\ s[Len(s)] \in WhiteSpace
  THEN TrimRight(SubSeq(s, 1, Len(s) - 1))
  ELSE s

TrimSpace(s) == TrimRight(TrimLeft(s))

\* strings.TrimPrefix(s, "\uFEFF")
TrimPrefixBOM(s) == IF s # <<>> /\ Head(s) = BOM THEN Tail(s) ELSE s

\* strings.EqualFold
EqualFold(a, b) ==
  /\ Len(a) = Len(b)
  /\ \A i \in 1..Len(a) : ToLower(a[i]) = ToLower(b[i])

\* All characters of s[from..to] are decimal digits.
AllDigits(s, from, to) == \A i \in from..to : s[i] \in Digits

\* The value of the decimal digits s[from..to].
RECURSIVE DecValue(_, _, _)
DecValue(s, from, to) ==
  IF to < from THEN 0
  ELSE 10 * DecValue(s, from, to - 1) + DigitVal(s[to])

\* fmt.Sprintf("%d", n) for n >= 0
RECURSIVE FormatNat(_)
FormatNat(n) ==
  IF n < 10 THEN <<DigitChar(n)>>
  ELSE Append(FormatNat(n \div 10), DigitChar(n % 10))

\* fmt.Sprintf("%d", n)
FormatInt(n) == IF n < 0 THEN <<"-">> \o FormatNat(0 - n) ELSE FormatNat(n)

(***************************************************************************)
(* Dates: time.Time values with day precision, in UTC.                     *)
(***************************************************************************)
Date(y, m, d) == [Y |-> y, M |-> m, D |-> d]

\* The zero time.Time (January 1, year 1).
ZeroDate == Date(1, 1, 1)

\* time.Time.After
After(a, b) ==
  \/ a.Y > b.Y
  \/ a.Y = b.Y /\ a.M > b.M
  \/ a.Y = b.Y /\ a.M = b.M /\ a.D > b.D

\* time.Time.Before
Before(a, b) == After(b, a)

IsLeap(y) == y % 4 = 0 /\ (y % 100 # 0 \/ y % 400 = 0)

\* time.daysIn
DaysIn(m, y) ==
  IF m = 2 THEN (IF IsLeap(y) THEN 29 ELSE 28)
  ELSE IF m \in {4, 6, 9, 11} THEN 30 ELSE 31

\* time.Parse(domain.CSVDateLayout, s) with the layout "2006/01/02": four
\* digits, "/", two digits, "/", two digits and nothing else; the month in
\* 1..12 and the day in 1..daysIn(month, year).
TimeParseOK(s) ==
  /\ Len(s) = 10
  /\ AllDigits(s, 1, 4) /\ s[5] = "/"
  /\ AllDigits(s, 6, 7) /\ s[8] = "/"
  /\ AllDigits(s, 9, 10)
  /\ DecValue(s, 6, 7) \in 1..12
  /\ DecValue(s, 9, 10) \in 1..DaysIn(DecValue(s, 6, 7), DecValue(s, 1, 4))

TimeParse(s) == Date(DecValue(s, 1, 4), DecValue(s, 6, 7), DecValue(s, 9, 10))

\* tx.Date.Format(domain.CSVDateLayout)
Pad(n, width) ==
  [i \in 1..(width - Len(FormatNat(n))) |-> "0"] \o FormatNat(n)

FormatDate(d) == Pad(d.Y, 4) \o <<"/">> \o Pad(d.M, 2) \o <<"/">> \o Pad(d.D, 2)

(***************************************************************************)
(* strconv.ParseInt(s, 10, 64)                                             *)
(***************************************************************************)
HasSign(s) == s # <<>> /\ Head(s) \in {"+", "-"}

IntDigits(s) == IF HasSign(s) THEN Tail(s) ELSE s

\* The mathematical value of a syntactically valid integer text.
IntValue(s) ==
  IF s # <<>> /\ Head(s) = "-"
  THEN 0 - DecValue(IntDigits(s), 1, Len(IntDigits(s)))
  ELSE DecValue(IntDigits(s), 1, Len(IntDigits(s)))

\* strconv.ErrSyntax: no digits, or a character that is no digit.
IntSyntaxOK(s) ==
  /\ IntDigits(s) # <<>>
  /\ AllDigits(IntDigits(s), 1, Len(IntDigits(s)))

\* strconv.ErrRange: the value does not fit in 64 bits.
IntRangeOK(s) == IntValue(s) >= MinInt64 /\ IntValue(s) <= MaxInt64

ParseIntOK(s) == IntSyntaxOK(s) /\ IntRangeOK(s)

(***************************************************************************)
(* Errors.  An error is the sequence of its layers, outermost first (each  *)
(* layer wraps the next with %w or as DomainError.Cause); <<>> is nil.     *)
(***************************************************************************)
NoError == <<>>

Layer(kind, msg, line) == [kind |-> kind, msg |-> msg, line |-> line]

\* fmt.Errorf(msg + ": %w", cause) / fmt.Errorf(msg)
Errorf(msg, line, cause) == <<Layer("error", msg, line)>> \o cause

ErrorTypeValidation == "validation"
ErrorTypeParse == "parse"
ErrorTypeIO == "io"

NewValidationError(msg) == <<Layer(ErrorTypeValidation, msg, 0)>>

NewParseError(msg, cause) == <<Layer(ErrorTypeParse, msg, 0)>> \o cause

NewIOError(msg, cause) == <<Layer(ErrorTypeIO, msg, 0)>> \o cause

\* domain.IsParseError: the error itself (not its cause) is a DomainError
\* of type parse.
IsParseError(err) == err # NoError /\ err[1].kind = ErrorTypeParse

\* context.Canceled and context.DeadlineExceeded, as ctx.Err() returns them.
ContextCanceled == <<Layer("context", "context canceled", 0)>>
ContextDeadlineExceeded == <<Layer("context", "context deadline exceeded", 0)>>

\* io.EOF
EOF == <<Layer("error", "EOF", 0)>>

(***************************************************************************)
(* domain.Transaction                                                      *)
(***************************************************************************)
Transaction(date, amount, content) ==
  [Date |-> date, Amount |-> amount, Content |-> content]

ZeroTransaction == Transaction(ZeroDate, 0, <<>>)

\* A Go slice of transactions: nil, or a sequence of elements.
NilSlice == [isNil |-> TRUE, elems |-> <<>>]

SliceOf(seq) == [isNil |-> FALSE, elems |-> seq]

\* append(s, t): the result is never nil.
AppendSlice(s, t) == SliceOf(Append(s.elems, t))

NewTransaction(date, amount, content) ==
  IF content = <<>>
  THEN [tx |-> ZeroTransaction, err |-> Errorf("content cannot be empty", 0, NoError)]
  ELSE IF TrimSpace(content) = <<>>
  THEN [tx |-> ZeroTransaction,
        err |-> Errorf("content cannot be empty after trimming", 0, NoError)]
  ELSE [tx |-> Transaction(date, amount, TrimSpace(content)), err |-> NoError]

IsIncome(t) == t.Amount > 0

IsExpense(t) == t.Amount < 0

\* Go's unary minus on int64: wraps silently (-MinInt64 is MinInt64).
NegInt64(a) == Wrap64(0 - a)

\* if t.Amount < 0 { return -t.Amount }; return t.Amount
AbsAmount(t) == IF t.Amount < 0 THEN NegInt64(t.Amount) ELSE t.Amount

(***************************************************************************)
(* The record decoder and the header check of the streaming parser.        *)
(***************************************************************************)
streamingColDate == <<"d", "a", "t", "e">>
streamingColAmount == <<"a", "m", "o", "u", "n", "t">>
streamingColContent == <<"c", "o", "n", "t", "e", "n", "t">>

streamingEq(a, b) == EqualFold(TrimSpace(a), TrimSpace(b))

\* The error streamingValidateHeader returns for a header; NoError when the
\* header is accepted.
streamingValidateHeader(header) ==
  IF Len(header) < 3
  THEN Errorf("invalid header: expected 3 columns", 0, NoError)
  ELSE IF \/ ~streamingEq(TrimPrefixBOM(header[1]), streamingColDate)
          \/ ~streamingEq(header[2], streamingColAmount)
          \/ ~streamingEq(header[3], streamingColContent)
  THEN Errorf("unexpected header", 0, NoError)
  ELSE NoError

Failed(err) == [tx |-> ZeroTransaction, err |-> err]

\* A buggy variant: the date and the amount are parsed before the columns
\* are checked for emptiness.
streamingParseRecordParseFirst(record) ==
  IF Len(record) # 3
  THEN Failed(NewParseError("invalid record: expected 3 columns",
                            Errorf("record", 0, NoError)))
  ELSE IF ~TimeParseOK(TrimSpace(record[1]))
  THEN Failed(NewParseError("failed to parse date",
                            Errorf("time.ParseError", 0, NoError)))
  ELSE IF ~IntSyntaxOK(TrimSpace(record[2]))
  THEN Failed(NewParseError("failed to parse amount",
                            Errorf("strconv.ErrSyntax", 0, NoError)))
  ELSE IF ~IntRangeOK(TrimSpace(record[2]))
  THEN Failed(NewParseError("failed to parse amount",
                            Errorf("strconv.ErrRange", 0, NoError)))
  ELSE IF TrimSpace(record[3]) = <<>>
  THEN Failed(NewValidationError("empty column in record"))
  ELSE NewTransaction(TimeParse(TrimSpace(record[1])),
                      IntValue(TrimSpace(record[2])),
                      TrimSpace(record[3]))

streamingParseRecord(record) ==
  IF Len(record) # 3
  THEN Failed(NewParseError("invalid record: expected 3 columns",
                            Errorf("record", 0, NoError)))
  ELSE IF \/ TrimSpace(record[1]) = <<>>
          \/ TrimSpace(record[2]) = <<>>
          \/ TrimSpace(record[3]) = <<>>
  THEN Failed(NewValidationError("empty column in record"))
  ELSE IF ~TimeParseOK(TrimSpace(record[1]))
  THEN Failed(NewParseError("failed to parse date",
                            Errorf("time.ParseError", 0, NoError)))
  ELSE IF ~IntSyntaxOK(TrimSpace(record[2]))
  THEN Failed(NewParseError("failed to parse amount",
                            Errorf("strconv.ErrSyntax", 0, NoError)))
  ELSE IF ~IntRangeOK(TrimSpace(record[2]))
  THEN Failed(NewParseError("failed to parse amount",
                            Errorf("strconv.ErrRange", 0, NoError)))
  ELSE NewTransaction(TimeParse(TrimSpace(record[1])),
                      IntValue(TrimSpace(record[2])),
                      TrimSpace(record[3]))

(***************************************************************************)
(* The predicates.  A request is                                           *)
(*   [kind, year, month, startDate, endDate]                               *)
(* with kind "period" (GenerateMonthlyStatementOptimized) or "range"       *)
(* (GenerateStatementByDateRangeOptimized).                                *)
(***************************************************************************)
\* The closure ParseWithPeriodFilter passes to ParseWithFilter.
PeriodFilter(t, year, month) == t.Date.Y = year /\ t.Date.M = month

\* util.Between: start <= date <= end at day granularity.
Between(date, startDate, endDate) ==
  ~Before(date, startDate) /\ ~After(date, endDate)

\* A buggy variant: the end of the range is excluded (half-open range).
DateRangeFilterExclusiveEnd(t, startDate, endDate) ==
  Between(t.Date, startDate, endDate) /\ t.Date # endDate

\* A buggy variant: a range given in the wrong order is put in order.
DateRangeFilterEitherOrder(t, startDate, endDate) ==
  Between(t.Date, startDate, endDate) \/ Between(t.Date, endDate, startDate)

\* The closure ParseWithDateRangeFilter passes to ParseWithFilter.
DateRangeFilter(t, startDate, endDate) == Between(t.Date, startDate, endDate)

filterFunc(t, rq) ==
  IF rq.kind = "period"
  THEN PeriodFilter(t, rq.year, rq.month)
  ELSE DateRangeFilter(t, rq.startDate, rq.endDate)

(***************************************************************************)
(* ParseWithFilter: the pieces of the read loop.                           *)
(***************************************************************************)
\* A buggy variant: matching records are put in front of the accumulator.
PrependIfMatch(txs, t, keep) ==
  IF keep THEN SliceOf(<<t>> \o txs.elems) ELSE txs

\* A buggy variant: accumulate everything (filter after loading).
AppendAlways(txs, t, keep) == AppendSlice(txs, t)

\* if filterFunc(transaction) { transactions = append(transactions, transaction) }
AppendIfMatch(txs, t, keep) == IF keep THEN AppendSlice(txs, t) ELSE txs

\* A buggy variant: a row that fails decoding is skipped, the parse goes on.
RecordStepSkipInvalid(record, txs, rowIdx, rq) ==
  IF streamingParseRecord(record).err # NoError
  THEN [txs |-> txs, err |-> NoError, rowIndex |-> rowIdx + 1]
  ELSE [txs |-> AppendIfMatch(txs, streamingParseRecord(record).tx,
                              filterFunc(streamingParseRecord(record).tx, rq)),
        err |-> NoError, rowIndex |-> rowIdx + 1]

\* A buggy variant: rowIndex counts the accumulated records, not the rows.
RecordStepIndexMatches(record, txs, rowIdx, rq) ==
  IF streamingParseRecord(record).err # NoError
  THEN [txs |-> txs,
        err |-> Errorf("line", rowIdx, streamingParseRecord(record).err),
        rowIndex |-> rowIdx]
  ELSE [txs |-> AppendIfMatch(txs, streamingParseRecord(record).tx,
                              filterFunc(streamingParseRecord(record).tx, rq)),
        err |-> NoError,
        rowIndex |-> IF filterFunc(streamingParseRecord(record).tx, rq)
                     THEN rowIdx + 1 ELSE rowIdx]

\* The loop body after a successful reader.Read(): decode, filter, append,
\* rowIndex++; a decode failure is wrapped with the row index.
RecordStep(record, txs, rowIdx, rq) ==
  IF streamingParseRecord(record).err # NoError
  THEN [txs |-> txs,
        err |-> Errorf("line", rowIdx, streamingParseRecord(record).err),
        rowIndex |-> rowIdx]
  ELSE [txs |-> AppendIfMatch(txs, streamingParseRecord(record).tx,
                              filterFunc(streamingParseRecord(record).tx, rq)),
        err |-> NoError, rowIndex |-> rowIdx + 1]

\* A buggy variant: the partial accumulator is returned with the error.
ReturnPartial(txs, err) == [records |-> txs, err |-> err]

\* return nil, err: every failing exit of ParseWithFilter.
ReturnFailure(txs, err) == [records |-> NilSlice, err |-> err]

\* return transactions, nil
ReturnSuccess(txs) == [records |-> txs, err |-> NoError]

(***************************************************************************)
(* The aggregator: stable sort (newest first) and totals.                  *)
(***************************************************************************)
\* A buggy variant: "not older" instead of "newer" (equal dates swap).
LessNotBefore(a, b) == ~Before(a.Date, b.Date)

\* The less function given to sort.SliceStable.
Less(a, b) == After(a.Date, b.Date)

Swap(s, i, j) == [s EXCEPT ![i] = s[j], ![j] = s[i]]

\* for j := i; j > a && less(j, j-1); j-- { swap(j, j-1) }
RECURSIVE InsertDown(_, _)
InsertDown(s, j) ==
  IF j > 1 /\ Less(s[j], s[j - 1])
  THEN InsertDown(Swap(s, j, j - 1), j - 1)
  ELSE s

RECURSIVE InsertionSortFrom(_, _)
InsertionSortFrom(s, i) ==
  IF i > Len(s) THEN s ELSE InsertionSortFrom(InsertDown(s, i), i + 1)

\* sort.SliceStable on a slice shorter than its block size of 20: one
\* insertion sort.  A nil slice stays nil.
SliceStable(txs) ==
  [isNil |-> txs.isNil, elems |-> InsertionSortFrom(txs.elems, 2)]

\* for _, transaction := range transactions { if IsIncome .. else if IsExpense .. }
RECURSIVE TotalsFrom(_, _, _, _)
TotalsFrom(s, i, totalIncome, totalExpenditure) ==
  IF i > Len(s)
  THEN [totalIncome |-> totalIncome, totalExpenditure |-> totalExpenditure]
  ELSE IF IsIncome(s[i])
  THEN TotalsFrom(s, i + 1, AddInt64(totalIncome, s[i].Amount), totalExpenditure)
  ELSE IF IsExpense(s[i])
  THEN TotalsFrom(s, i + 1, totalIncome, AddInt64(totalExpenditure, s[i].Amount))
  ELSE TotalsFrom(s, i + 1, totalIncome, totalExpenditure)

CalculateTotalsOptimized(txs) == TotalsFrom(txs.elems, 1, 0, 0)

(***************************************************************************)
(* The result assembler.                                                   *)
(***************************************************************************)
TransactionDTO(tx) ==
  [Date |-> FormatDate(tx.Date), Amount |-> FormatInt(tx.Amount),
   Content |-> tx.Content]

\* A buggy variant: the projections are appended to a nil slice, which stays
\* nil when there is no record.
NewStatementAppendToNil(period, txs, totalIncome, totalExpenditure) ==
  [Period |-> period,
   TotalIncome |-> totalIncome,
   TotalExpenditure |-> totalExpenditure,
   Transactions |->
     [isNil |-> txs.elems = <<>>,
      elems |-> [i \in 1..Len(txs.elems) |-> TransactionDTO(txs.elems[i])]]]

\* make([]TransactionDTO, len(transactions)) is never nil.
NewStatement(period, txs, totalIncome, totalExpenditure) ==
  [Period |-> period,
   TotalIncome |-> totalIncome,
   TotalExpenditure |-> totalExpenditure,
   Transactions |->
     [isNil |-> FALSE,
      elems |-> [i \in 1..Len(txs.elems) |-> TransactionDTO(txs.elems[i])]]]

\* The readings time.Now() can give.
ClockReadings == {"t1", "t2"}

\* The second NewStatement of package domain in the repository: the
\* statement carries net_amount, transaction_count and generated_at, the
\* last one read from the clock (GeneratedAt: time.Now()).
NewStatementGeneratedAt(period, txs, totalIncome, totalExpenditure, now) ==
  [Period |-> period,
   TotalIncome |-> totalIncome,
   TotalExpenditure |-> totalExpenditure,
   NetAmount |-> AddInt64(totalIncome, totalExpenditure),
   TransactionCount |-> Len(txs.elems),
   Transactions |->
     [isNil |-> FALSE,
      elems |-> [i \in 1..Len(txs.elems) |-> TransactionDTO(txs.elems[i])]],
   GeneratedAt |-> now]

\* domain.NewStatement as the build links it: the repository holds both
\* definitions, and a build has one of them.
NewStatementBuilds(period, txs, totalIncome, totalExpenditure) ==
  {NewStatement(period, txs, totalIncome, totalExpenditure)}
    \cup {NewStatementGeneratedAt(period, txs, totalIncome, totalExpenditure, now) :
            now \in ClockReadings}

(***************************************************************************)
(* The period validator.                                                   *)
(***************************************************************************)
\* A buggy variant: the year is bounded too.
ValidatePeriodYearBounds(year, month) ==
  IF month < 1 \/ month > 12
  THEN NewValidationError("invalid month")
  ELSE IF year < 1900 \/ year > 2100
  THEN NewValidationError("invalid year")
  ELSE NoError

ValidatePeriod(year, month) ==
  IF month < 1 \/ month > 12
  THEN NewValidationError("invalid month")
  ELSE NoError

(***************************************************************************)
(* The inputs of a request: the request itself and the content of the      *)
(* stream Source.Open returns.  A stream is the sequence of the CSV        *)
(* records in it, the header first; an item with csvErr is a line on which *)
(* csv.Reader.Read fails (a bare quote in an unquoted field).              *)
(***************************************************************************)
Rec(fields) == [fields |-> fields, csvErr |-> FALSE]

CsvSyntaxError == [fields |-> <<>>, csvErr |-> TRUE]

Jan01 == FormatDate(Date(2025, 1, 1))
Jan05 == FormatDate(Date(2025, 1, 5))
Jan09 == FormatDate(Date(2025, 1, 9))
Feb01 == FormatDate(Date(2025, 2, 1))

HeaderPlain == Rec(<<streamingColDate, streamingColAmount, streamingColContent>>)

HeaderBomCaseSpace ==
  Rec(<<<<BOM, "D", "A", "T", "E">>,
        <<" ", "a", "m", "o", "u", "n", "t", " ">>,
        <<"C", "o", "n", "t", "e", "n", "t">>>>)

\* "date,amount"
HeaderTwoColumns == Rec(<<streamingColDate, streamingColAmount>>)

\* "date,amount,content,note"
HeaderFourColumns ==
  Rec(<<streamingColDate, streamingColAmount, streamingColContent,
        <<"n", "o", "t", "e">>>>)

\* "amount,date,content"
HeaderWrongOrder ==
  Rec(<<streamingColAmount, streamingColDate, streamingColContent>>)

HeaderPool ==
  {HeaderPlain, HeaderBomCaseSpace, HeaderTwoColumns, HeaderFourColumns,
   HeaderWrongOrder}

RowSalary == Rec(<<Jan05, <<"3">>, <<"S", "a", "l">>>>)
RowGrocery == Rec(<<Jan05 \o <<" ">>, <<" ", "-", "2">>, <<"G", "r", "o", " ">>>>)
RowBonus == Rec(<<Jan09, FormatInt(MaxInt64), <<"B", "o", "n">>>>)
RowRent == Rec(<<Feb01, FormatInt(MinInt64), <<"R", "e", "n", "t">>>>)
RowGift == Rec(<<Jan01, <<"0">>, <<"G", "i", "f", "t">>>>)
RowBadAmount == Rec(<<Jan09, <<"1", "x">>, <<"B", "a", "d">>>>)
RowTwoFields == Rec(<<Jan05, <<"1">>>>)

RowPool ==
  {RowSalary, RowGrocery, RowBonus, RowRent, RowGift, RowBadAmount,
   RowTwoFields, CsvSyntaxError}

RowSeqs(n) == UNION {[1..k -> RowPool] : k \in 0..n}

\* The streams: the empty stream, the plain header followed by up to MaxRows
\* rows, and every other header followed by up to MaxRowsOtherHeaders rows.
Files ==
  {<<>>}
    \cup {<<HeaderPlain>> \o rows : rows \in RowSeqs(MaxRows)}
    \cup {<<h>> \o rows : h \in HeaderPool \ {HeaderPlain},
                          rows \in RowSeqs(MaxRowsOtherHeaders)}

\* display = fmt.Sprintf("%d/%02d", year, month)
Label(y, m) ==
  FormatInt(y) \o <<"/">>
    \o (IF m < 0 THEN <<"-">> \o Pad(0 - m, 1) ELSE Pad(m, 2))

PeriodRequest(y, m) ==
  [kind |-> "period", periodDisplay |-> Label(y, m), year |-> y, month |-> m,
   startDate |-> ZeroDate, endDate |-> ZeroDate]

RangeRequest(s, e) ==
  [kind |-> "range", periodDisplay |-> <<"r", "a", "n", "g", "e">>,
   year |-> 0, month |-> 0, startDate |-> s, endDate |-> e]

Requests ==
  {PeriodRequest(2025, 1), PeriodRequest(2025, 13),
   RangeRequest(Date(2025, 1, 5), Date(2025, 2, 1)),
   RangeRequest(Date(2025, 2, 1), Date(2025, 1, 5))}

\* reader.Read() with TrimLeadingSpace: the fields of the record, leading
\* white space removed.
ReadFields(item) == [i \in 1..Len(item.fields) |-> TrimLeft(item.fields[i])]

(***************************************************************************)
(* The state of one generation request.                                    *)
(***************************************************************************)
VARIABLES
  req,          \* the request (kind, period or range, label)
  ctx,          \* the context: "active", "canceled" or "deadline"
  pc,           \* the position of the request in the pipeline
  file,         \* the content of the opened stream
  openCalls,    \* calls of Source.Open
  opens,        \* successful calls of Source.Open
  closes,       \* calls of Close on the stream
  pos,          \* records read from the stream so far
  transactions, \* ParseWithFilter's accumulator
  rowIndex,     \* ParseWithFilter's row index
  parseRet,     \* what ParseWithFilter returned
  svcRet,       \* what GetTransactionsBy...Optimized returned
  statement,    \* the statement built, if any
  writes,       \* calls of Writer.Write
  outFile,      \* the output file: "untouched", "created" or "written"
  outDoc,       \* the document in the output file, if any
  genErr,       \* the error Generate...Optimized returned
  peer,         \* a second ParseWithFilter call running at the same time
  call,         \* a call of one function of the program on its own
  evals         \* the rows filterFunc was called on, in the order of the calls

vars ==
  <<req, ctx, pc, file, openCalls, opens, closes, pos, transactions, rowIndex,
    parseRet, svcRet, statement, writes, outFile, outDoc, genErr, peer, call,
    evals>>

\* No function called on its own.
NoCall == [fn |-> "none", args |-> <<>>, returned |-> FALSE, ret |-> <<>>]

NoReturn == [records |-> NilSlice, err |-> NoError]

\* The locals of a ParseWithFilter call: its arguments (ctx, r, filterFunc),
\* where it is, and reader, transactions, rowIndex and the return values.
Call(rq, c, p, f, n, txs, rowIdx, ret) ==
  [req |-> rq, ctx |-> c, pc |-> p, file |-> f, pos |-> n,
   transactions |-> txs, rowIndex |-> rowIdx, parseRet |-> ret]

\* No second call.
NoPeer ==
  Call(RangeRequest(ZeroDate, ZeroDate), "active", "None", <<>>, 0, NilSlice,
       0, NoReturn)

Init ==
  /\ req \in Requests
  /\ ctx = "active"
  /\ pc = IF req.kind = "period" THEN "Validate" ELSE "Open"
  /\ file = <<>>
  /\ openCalls = 0
  /\ opens = 0
  /\ closes = 0
  /\ pos = 0
  /\ transactions = NilSlice
  /\ rowIndex = 0
  /\ parseRet = NoReturn
  /\ svcRet = NoReturn
  /\ statement = <<>>
  /\ writes = 0
  /\ outFile = "untouched"
  /\ outDoc = <<>>
  /\ genErr = NoError
  /\ peer = NoPeer
  /\ call = NoCall
  /\ evals = <<>>

\* ctx.Err() once the context is done.
CtxErr == IF ctx = "deadline" THEN ContextDeadlineExceeded ELSE ContextCanceled

\* The caller cancels the context, or its deadline passes.  Only the poll of
\* the read loop reads the context, so the signal matters until the parse
\* has returned.
Cancel ==
  /\ ctx = "active"
  /\ pc \in {"Validate", "Open", "ReadHeader", "Poll", "Read"}
  /\ \E c \in {"canceled", "deadline"} : ctx' = c
  /\ UNCHANGED <<peer, call, evals,
                 req, pc,file, openCalls, opens, closes, pos, transactions,
                 rowIndex, parseRet, svcRet, statement, writes, outFile,
                 outDoc, genErr>>

\* GetTransactionsByPeriodOptimized: s.Validator.ValidatePeriod(year, month)
Validate ==
  /\ pc = "Validate"
  /\ IF ValidatePeriod(req.year, req.month) # NoError
     THEN /\ svcRet' = [records |-> NilSlice,
                        err |-> ValidatePeriod(req.year, req.month)]
          /\ pc' = "Returned"
     ELSE /\ svcRet' = svcRet
          /\ pc' = "Open"
  /\ UNCHANGED <<peer, call, evals,
                 req, ctx,file, openCalls, opens, closes, pos, transactions,
                 rowIndex, parseRet, statement, writes, outFile, outDoc,
                 genErr>>

\* s.Source.Open(ctx, csvFileURI): the source yields a stream of some
\* content, or fails.
OpenSucceeds ==
  /\ pc = "Open"
  /\ openCalls' = openCalls + 1
  /\ opens' = opens + 1
  /\ \E f \in Files : file' = f
  /\ pc' = "ReadHeader"
  /\ UNCHANGED <<peer, call, evals,
                 req, ctx,closes, pos, transactions, rowIndex, parseRet,
                 svcRet, statement, writes, outFile, outDoc, genErr>>

OpenFails ==
  /\ pc = "Open"
  /\ openCalls' = openCalls + 1
  /\ svcRet' = [records |-> NilSlice,
                err |-> NewIOError("failed to open CSV source",
                                   Errorf("open", 0, NoError))]
  /\ pc' = "Returned"
  /\ UNCHANGED <<peer, call, evals,
                 req, ctx,file, opens, closes, pos, transactions, rowIndex,
                 parseRet, statement, writes, outFile, outDoc, genErr>>

\* ParseWithFilter up to the loop: read and validate the header, declare
\* transactions (nil) and rowIndex (2).
ReadHeader ==
  /\ pc = "ReadHeader"
  /\ IF file = <<>>
     THEN /\ parseRet' = ReturnFailure(transactions, Errorf("read header", 0, EOF))
          /\ pc' = "Parsed"
          /\ UNCHANGED <<pos, transactions, rowIndex>>
     ELSE IF file[1].csvErr
     THEN /\ parseRet' = ReturnFailure(transactions,
                           Errorf("read header", 0, Errorf("csv.ParseError", 0, NoError)))
          /\ pc' = "Parsed"
          /\ pos' = 1
          /\ UNCHANGED <<transactions, rowIndex>>
     ELSE IF streamingValidateHeader(ReadFields(file[1])) # NoError
     THEN /\ parseRet' = ReturnFailure(transactions,
                           streamingValidateHeader(ReadFields(file[1])))
          /\ pc' = "Parsed"
          /\ pos' = 1
          /\ UNCHANGED <<transactions, rowIndex>>
     ELSE /\ pos' = 1
          /\ transactions' = NilSlice
          /\ rowIndex' = 2
          /\ pc' = "Poll"
          /\ UNCHANGED parseRet
  /\ UNCHANGED <<peer, call, evals,
                 req, ctx,file, openCalls, opens, closes, svcRet, statement,
                 writes, outFile, outDoc, genErr>>

\* A buggy variant: the context is polled before the first row only, not at
\* the start of every iteration.
PollBeforeFirstRowOnly ==
  /\ pc = "Poll"
  /\ IF ctx # "active" /\ pos = 1
     THEN /\ parseRet' = ReturnFailure(transactions, CtxErr)
          /\ pc' = "Parsed"
     ELSE /\ parseRet' = parseRet
          /\ pc' = "Read"
  /\ UNCHANGED <<peer, call, evals,
                 req, ctx,file, openCalls, opens, closes, pos, transactions,
                 rowIndex, svcRet, statement, writes, outFile, outDoc, genErr>>

\* select { case <-ctx.Done(): return nil, ctx.Err(); default: }
Poll ==
  /\ pc = "Poll"
  /\ IF ctx # "active"
     THEN /\ parseRet' = ReturnFailure(transactions, CtxErr)
          /\ pc' = "Parsed"
     ELSE /\ parseRet' = parseRet
          /\ pc' = "Read"
  /\ UNCHANGED <<peer, call, evals,
                 req, ctx,file, openCalls, opens, closes, pos, transactions,
                 rowIndex, svcRet, statement, writes, outFile, outDoc, genErr>>

\* A buggy variant: the predicate is called on whatever the decoder
\* returned before the decoder's error is looked at.
ReadRecordFilterBeforeErrorCheck ==
  /\ pc = "Read"
  /\ IF pos = Len(file)
     THEN /\ parseRet' = ReturnSuccess(transactions)
          /\ pc' = "Parsed"
          /\ UNCHANGED <<pos, transactions, rowIndex, evals>>
     ELSE IF file[pos + 1].csvErr
     THEN /\ parseRet' = ReturnFailure(transactions,
                           Errorf("read record at line", rowIndex,
                                  Errorf("csv.ParseError", 0, NoError)))
          /\ pc' = "Parsed"
          /\ pos' = pos + 1
          /\ UNCHANGED <<transactions, rowIndex, evals>>
     ELSE LET step == RecordStep(ReadFields(file[pos + 1]), transactions,
                                 rowIndex, req)
          IN /\ pos' = pos + 1
             /\ transactions' = step.txs
             /\ rowIndex' = step.rowIndex
             /\ evals' = Append(evals, pos + 1)
             /\ IF step.err # NoError
                THEN /\ parseRet' = ReturnFailure(step.txs, step.err)
                     /\ pc' = "Parsed"
                ELSE /\ parseRet' = parseRet
                     /\ pc' = "Poll"
  /\ UNCHANGED <<peer, call,
                 req, ctx, file, openCalls, opens, closes, svcRet, statement,
                 writes, outFile, outDoc, genErr>>

\* The rest of one loop iteration: reader.Read(), then on a record decode,
\* filter, append and rowIndex++.  filterFunc is called in one place, once,
\* on the record of a row that decoded.
ReadRecord ==
  /\ pc = "Read"
  /\ IF pos = Len(file)
     THEN /\ parseRet' = ReturnSuccess(transactions)
          /\ pc' = "Parsed"
          /\ UNCHANGED <<pos, transactions, rowIndex, evals>>
     ELSE IF file[pos + 1].csvErr
     THEN /\ parseRet' = ReturnFailure(transactions,
                           Errorf("read record at line", rowIndex,
                                  Errorf("csv.ParseError", 0, NoError)))
          /\ pc' = "Parsed"
          /\ pos' = pos + 1
          /\ UNCHANGED <<transactions, rowIndex, evals>>
     ELSE LET step == RecordStep(ReadFields(file[pos + 1]), transactions,
                                 rowIndex, req)
          IN /\ pos' = pos + 1
             /\ transactions' = step.txs
             /\ rowIndex' = step.rowIndex
             /\ IF step.err # NoError
                THEN /\ parseRet' = ReturnFailure(step.txs, step.err)
                     /\ pc' = "Parsed"
                     /\ evals' = evals
                ELSE /\ parseRet' = parseRet
                     /\ pc' = "Poll"
                     /\ evals' = Append(evals, pos + 1)
  /\ UNCHANGED <<peer, call,
                 req, ctx,file, openCalls, opens, closes, svcRet, statement,
                 writes, outFile, outDoc, genErr>>

\* A buggy variant: the stream is closed on the success path only.
CloseOnSuccessOnly(n, err) == IF err = NoError THEN n + 1 ELSE n

\* defer csvReader.Close(): runs once on every return after a successful Open.
DeferredClose(n, err) == n + 1

\* GetTransactionsBy...Optimized after the parser returned: wrap the error,
\* or sort newest first.
AfterParse ==
  /\ pc = "Parsed"
  /\ svcRet' = IF parseRet.err # NoError
               THEN [records |-> NilSlice,
                     err |-> NewParseError("failed to parse CSV", parseRet.err)]
               ELSE [records |-> SliceStable(parseRet.records), err |-> NoError]
  /\ pc' = "Deferred"
  /\ UNCHANGED <<peer, call, evals,
                 req, ctx,file, openCalls, opens, closes, pos, transactions,
                 rowIndex, parseRet, statement, writes, outFile, outDoc,
                 genErr>>

\* The deferred Close runs and GetTransactionsBy...Optimized returns.
CloseAndReturn ==
  /\ pc = "Deferred"
  /\ closes' = DeferredClose(closes, svcRet.err)
  /\ pc' = "Returned"
  /\ UNCHANGED <<peer, call, evals,
                 req, ctx,file, openCalls, opens, pos, transactions,
                 rowIndex, parseRet, svcRet, statement, writes, outFile,
                 outDoc, genErr>>

\* A buggy variant: the error of the transaction service is kept for the
\* return, but the statement (of no records) is built and written all the
\* same.
AssembleDespiteError ==
  /\ pc = "Returned"
  /\ \E s \in NewStatementBuilds(req.periodDisplay, svcRet.records,
                CalculateTotalsOptimized(svcRet.records).totalIncome,
                CalculateTotalsOptimized(svcRet.records).totalExpenditure) :
           statement' = <<s>>
  /\ genErr' = svcRet.err
  /\ pc' = "Write"
  /\ UNCHANGED <<peer, call, evals,
                 req, ctx, file, openCalls, opens, closes, pos, transactions,
                 rowIndex, parseRet, svcRet, writes, outFile, outDoc>>

\* Generate...Optimized after the transaction service returned: pass the
\* error on, or calculate the totals and build the statement.
Assemble ==
  /\ pc = "Returned"
  /\ IF svcRet.err # NoError
     THEN /\ genErr' = svcRet.err
          /\ statement' = statement
          /\ pc' = "Done"
     ELSE /\ \E s \in NewStatementBuilds(req.periodDisplay, svcRet.records,
                    CalculateTotalsOptimized(svcRet.records).totalIncome,
                    CalculateTotalsOptimized(svcRet.records).totalExpenditure) :
               statement' = <<s>>
          /\ genErr' = genErr
          /\ pc' = "Write"
  /\ UNCHANGED <<peer, call, evals,
                 req, ctx,file, openCalls, opens, closes, pos, transactions,
                 rowIndex, parseRet, svcRet, writes, outFile, outDoc>>

WriteError == NewIOError("failed to write statement", Errorf("write", 0, NoError))

\* JSONFileWriter.Write: os.Create fails.
WriteCreateFails ==
  /\ pc = "Write"
  /\ writes' = writes + 1
  /\ genErr' = WriteError
  /\ pc' = "Done"
  /\ UNCHANGED <<peer, call, evals,
                 req, ctx,file, openCalls, opens, closes, pos, transactions,
                 rowIndex, parseRet, svcRet, statement, outFile, outDoc>>

\* JSONFileWriter.Write: os.Create has created or truncated the file, then
\* the encoder's write to it fails.
WriteEncodeFails ==
  /\ pc = "Write"
  /\ writes' = writes + 1
  /\ outFile' = "created"
  /\ outDoc' = <<>>
  /\ genErr' = WriteError
  /\ pc' = "Done"
  /\ UNCHANGED <<peer, call, evals,
                 req, ctx,file, openCalls, opens, closes, pos, transactions,
                 rowIndex, parseRet, svcRet, statement>>

\* JSONFileWriter.Write: the file is created and the statement encoded.
WriteSucceeds ==
  /\ pc = "Write"
  /\ writes' = writes + 1
  /\ outFile' = "written"
  /\ outDoc' = statement
  /\ genErr' = NoError
  /\ pc' = "Done"
  /\ UNCHANGED <<peer, call, evals,
                 req, ctx,file, openCalls, opens, closes, pos, transactions,
                 rowIndex, parseRet, svcRet, statement>>

Next ==
  \/ Cancel
  \/ Validate
  \/ OpenSucceeds
  \/ OpenFails
  \/ ReadHeader
  \/ Poll
  \/ ReadRecord
  \/ AfterParse
  \/ CloseAndReturn
  \/ Assemble
  \/ WriteCreateFails
  \/ WriteEncodeFails
  \/ WriteSucceeds

Spec == Init /\ [][Next]_vars

(***************************************************************************)
(* Requests by date range, with rows of the stream on the bounds of a      *)
(* range and one day outside them: GenerateStatementByDateRangeOptimized   *)
(* with 2025/01/05..2025/02/01 and with 2025/01/02..2025/01/31.            *)
(***************************************************************************)
RangeRequests ==
  {RangeRequest(Date(2025, 1, 5), Date(2025, 2, 1)),
   RangeRequest(Date(2025, 1, 2), Date(2025, 1, 31))}

\* The requests of SpecRanges: the two ranges, and a monthly request.
RangeSpecRequests == RangeRequests \cup {PeriodRequest(2025, 13)}

InitRanges ==
  /\ req \in RangeSpecRequests
  /\ ctx = "active"
  /\ pc = IF req.kind = "period" THEN "Validate" ELSE "Open"
  /\ file = <<>>
  /\ openCalls = 0 /\ opens = 0 /\ closes = 0
  /\ pos = 0
  /\ transactions = NilSlice
  /\ rowIndex = 0
  /\ parseRet = NoReturn /\ svcRet = NoReturn
  /\ statement = <<>>
  /\ writes = 0
  /\ outFile = "untouched" /\ outDoc = <<>>
  /\ genErr = NoError
  /\ peer = NoPeer
  /\ call = NoCall
  /\ evals = <<>>

SpecRanges == InitRanges /\ [][Next]_vars

(***************************************************************************)
(* Monthly requests over years of every kind (negative, zero, far in the   *)
(* future) and months inside and outside 1..12:                            *)
(* GenerateMonthlyStatementOptimized(ctx, uri, display, year, month).      *)
(***************************************************************************)
YearRequests ==
  {PeriodRequest(0 - 1, 12), PeriodRequest(10000, 1),
   PeriodRequest(0 - 1, 0), PeriodRequest(0, 13), PeriodRequest(1950, 0 - 1),
   PeriodRequest(10000, 13)}

InitYears ==
  /\ req \in YearRequests
  /\ ctx = "active"
  /\ pc = "Validate"
  /\ file = <<>>
  /\ openCalls = 0 /\ opens = 0 /\ closes = 0
  /\ pos = 0
  /\ transactions = NilSlice
  /\ rowIndex = 0
  /\ parseRet = NoReturn /\ svcRet = NoReturn
  /\ statement = <<>>
  /\ writes = 0
  /\ outFile = "untouched" /\ outDoc = <<>>
  /\ genErr = NoError
  /\ peer = NoPeer
  /\ call = NoCall
  /\ evals = <<>>

SpecYears == InitYears /\ [][Next]_vars

(***************************************************************************)
(* The monthly request for 2025/01 alone, as the command line makes it:    *)
(* GenerateMonthlyStatementOptimized(ctx, csv, "2025/01", 2025, 1).        *)
(***************************************************************************)
MonthlyRequests == {PeriodRequest(2025, 1)}

InitMonthly ==
  /\ req \in MonthlyRequests
  /\ ctx = "active"
  /\ pc = "Validate"
  /\ file = <<>>
  /\ openCalls = 0 /\ opens = 0 /\ closes = 0
  /\ pos = 0
  /\ transactions = NilSlice
  /\ rowIndex = 0
  /\ parseRet = NoReturn /\ svcRet = NoReturn
  /\ statement = <<>>
  /\ writes = 0
  /\ outFile = "untouched" /\ outDoc = <<>>
  /\ genErr = NoError
  /\ peer = NoPeer
  /\ call = NoCall
  /\ evals = <<>>

SpecMonthly == InitMonthly /\ [][Next]_vars

(***************************************************************************)
(* Two ParseWithFilter calls at the same time, each with its own context,  *)
(* stream and predicate, as two goroutines sharing one FilteredCSVParser   *)
(* (a struct without fields) make them.  The first call is the one of the  *)
(* request; the second is peer.  Every step of a call is one of the steps  *)
(* ReadHeader, Poll and ReadRecord, and the steps interleave freely.       *)
(***************************************************************************)
PairStreams ==
  {<<>>,
   <<HeaderPlain>>,
   <<HeaderTwoColumns, RowSalary>>,
   <<HeaderPlain, RowSalary, RowRent, RowGrocery>>,
   <<HeaderPlain, RowRent, RowBadAmount, RowSalary>>,
   <<HeaderBomCaseSpace, RowGift, CsvSyntaxError>>}

PairPeerRequests ==
  {RangeRequest(Date(2025, 1, 5), Date(2025, 2, 1)), PeriodRequest(2025, 2)}

InitPair ==
  /\ req \in MonthlyRequests
  /\ ctx = "active"
  /\ pc = "ReadHeader"
  /\ file \in PairStreams
  /\ openCalls = 1 /\ opens = 1 /\ closes = 0
  /\ pos = 0
  /\ transactions = NilSlice
  /\ rowIndex = 0
  /\ parseRet = NoReturn /\ svcRet = NoReturn
  /\ statement = <<>>
  /\ writes = 0
  /\ outFile = "untouched" /\ outDoc = <<>>
  /\ genErr = NoError
  /\ \E rq \in PairPeerRequests, f \in PairStreams :
       peer = Call(rq, "active", "ReadHeader", f, 0, NilSlice, 0, NoReturn)
  /\ call = NoCall
  /\ evals = <<>>

\* The peer's context is cancelled, or its deadline passes.
PeerCancel ==
  /\ peer.ctx = "active"
  /\ peer.pc \in {"ReadHeader", "Poll", "Read"}
  /\ \E c \in {"canceled", "deadline"} : peer' = [peer EXCEPT !.ctx = c]
  /\ UNCHANGED <<call, evals,
                 req, ctx, pc, file, openCalls, opens, closes, pos,
                 transactions, rowIndex, parseRet, svcRet, statement, writes,
                 outFile, outDoc, genErr>>

\* The peer's ParseWithFilter up to the loop.
PeerReadHeader ==
  /\ peer.pc = "ReadHeader"
  /\ peer' =
       IF peer.file = <<>>
       THEN [peer EXCEPT
               !.parseRet = ReturnFailure(peer.transactions,
                                          Errorf("read header", 0, EOF)),
               !.pc = "Parsed"]
       ELSE IF peer.file[1].csvErr
       THEN [peer EXCEPT
               !.parseRet = ReturnFailure(peer.transactions,
                              Errorf("read header", 0,
                                     Errorf("csv.ParseError", 0, NoError))),
               !.pc = "Parsed", !.pos = 1]
       ELSE IF streamingValidateHeader(ReadFields(peer.file[1])) # NoError
       THEN [peer EXCEPT
               !.parseRet = ReturnFailure(peer.transactions,
                              streamingValidateHeader(ReadFields(peer.file[1]))),
               !.pc = "Parsed", !.pos = 1]
       ELSE [peer EXCEPT
               !.pos = 1, !.transactions = NilSlice, !.rowIndex = 2,
               !.pc = "Poll"]
  /\ UNCHANGED <<call, evals,
                 req, ctx, pc, file, openCalls, opens, closes, pos,
                 transactions, rowIndex, parseRet, svcRet, statement, writes,
                 outFile, outDoc, genErr>>

\* The peer's select on ctx.Done().
PeerPoll ==
  /\ peer.pc = "Poll"
  /\ peer' =
       IF peer.ctx # "active"
       THEN [peer EXCEPT
               !.parseRet = ReturnFailure(peer.transactions,
                              IF peer.ctx = "deadline"
                              THEN ContextDeadlineExceeded
                              ELSE ContextCanceled),
               !.pc = "Parsed"]
       ELSE [peer EXCEPT !.pc = "Read"]
  /\ UNCHANGED <<call, evals,
                 req, ctx, pc, file, openCalls, opens, closes, pos,
                 transactions, rowIndex, parseRet, svcRet, statement, writes,
                 outFile, outDoc, genErr>>

\* A buggy variant: the accumulator is a field of the parser, which the two
\* calls share, instead of a local of the call.
PeerReadRecordSharedAccumulator ==
  /\ peer.pc = "Read"
  /\ IF peer.pos = Len(peer.file)
     THEN /\ peer' = [peer EXCEPT !.parseRet = ReturnSuccess(transactions),
                                  !.pc = "Parsed"]
          /\ UNCHANGED transactions
     ELSE IF peer.file[peer.pos + 1].csvErr
     THEN /\ peer' = [peer EXCEPT
                        !.parseRet = ReturnFailure(transactions,
                                       Errorf("read record at line", peer.rowIndex,
                                              Errorf("csv.ParseError", 0, NoError))),
                        !.pc = "Parsed", !.pos = peer.pos + 1]
          /\ UNCHANGED transactions
     ELSE LET step == RecordStep(ReadFields(peer.file[peer.pos + 1]),
                                 transactions, peer.rowIndex, peer.req)
          IN /\ transactions' = step.txs
             /\ peer' =
                  IF step.err # NoError
                  THEN [peer EXCEPT
                          !.pos = peer.pos + 1, !.rowIndex = step.rowIndex,
                          !.parseRet = ReturnFailure(step.txs, step.err),
                          !.pc = "Parsed"]
                  ELSE [peer EXCEPT
                          !.pos = peer.pos + 1, !.rowIndex = step.rowIndex,
                          !.pc = "Poll"]
  /\ UNCHANGED <<call, evals,
                 req, ctx, pc, file, openCalls, opens, closes, pos,
                 rowIndex, parseRet, svcRet, statement, writes,
                 outFile, outDoc, genErr>>

\* The rest of one iteration of the peer's loop.
PeerReadRecord ==
  /\ peer.pc = "Read"
  /\ peer' =
       IF peer.pos = Len(peer.file)
       THEN [peer EXCEPT !.parseRet = ReturnSuccess(peer.transactions),
                         !.pc = "Parsed"]
       ELSE IF peer.file[peer.pos + 1].csvErr
       THEN [peer EXCEPT
               !.parseRet = ReturnFailure(peer.transactions,
                              Errorf("read record at line", peer.rowIndex,
                                     Errorf("csv.ParseError", 0, NoError))),
               !.pc = "Parsed", !.pos = peer.pos + 1]
       ELSE LET step == RecordStep(ReadFields(peer.file[peer.pos + 1]),
                                   peer.transactions, peer.rowIndex, peer.req)
            IN IF step.err # NoError
               THEN [peer EXCEPT
                       !.pos = peer.pos + 1, !.transactions = step.txs,
                       !.rowIndex = step.rowIndex,
                       !.parseRet = ReturnFailure(step.txs, step.err),
                       !.pc = "Parsed"]
               ELSE [peer EXCEPT
                       !.pos = peer.pos + 1, !.transactions = step.txs,
                       !.rowIndex = step.rowIndex, !.pc = "Poll"]
  /\ UNCHANGED <<call, evals,
                 req, ctx, pc, file, openCalls, opens, closes, pos,
                 transactions, rowIndex, parseRet, svcRet, statement, writes,
                 outFile, outDoc, genErr>>

NextPair ==
  \/ Cancel
  \/ ReadHeader
  \/ Poll
  \/ ReadRecord
  \/ PeerCancel
  \/ PeerReadHeader
  \/ PeerPoll
  \/ PeerReadRecord

SpecPair == InitPair /\ [][NextPair]_vars

(***************************************************************************)
(* The standard path: CSVParser.Parse loads every record of the stream,    *)
(* TransactionServiceImpl.GetTransactionsByPeriod filters and sorts them.  *)
(* Given the content f of the opened stream and a context that is never    *)
(* done, each is a function of its arguments.                              *)
(***************************************************************************)
eq(a, b) == EqualFold(TrimSpace(a), TrimSpace(b))

validateHeader(header) ==
  IF Len(header) < 3
  THEN Errorf("invalid header: expected 3 columns", 0, NoError)
  ELSE IF \/ ~eq(TrimPrefixBOM(header[1]), streamingColDate)
          \/ ~eq(header[2], streamingColAmount)
          \/ ~eq(header[3], streamingColContent)
  THEN Errorf("unexpected header", 0, NoError)
  ELSE NoError

parseRecord(record) ==
  IF Len(record) # 3
  THEN Failed(NewParseError("invalid record: expected 3 columns",
                            Errorf("record", 0, NoError)))
  ELSE IF \/ TrimSpace(record[1]) = <<>>
          \/ TrimSpace(record[2]) = <<>>
          \/ TrimSpace(record[3]) = <<>>
  THEN Failed(NewValidationError("empty column in record"))
  ELSE IF ~TimeParseOK(TrimSpace(record[1]))
  THEN Failed(NewParseError("failed to parse date",
                            Errorf("time.ParseError", 0, NoError)))
  ELSE IF ~IntSyntaxOK(TrimSpace(record[2]))
  THEN Failed(NewParseError("failed to parse amount",
                            Errorf("strconv.ErrSyntax", 0, NoError)))
  ELSE IF ~IntRangeOK(TrimSpace(record[2]))
  THEN Failed(NewParseError("failed to parse amount",
                            Errorf("strconv.ErrRange", 0, NoError)))
  ELSE NewTransaction(TimeParse(TrimSpace(record[1])),
                      IntValue(TrimSpace(record[2])),
                      TrimSpace(record[3]))

\* A buggy variant of the loop of Parse: a row that fails decoding is
\* skipped.
RECURSIVE ParseLoopSkipInvalid(_, _, _, _)
ParseLoopSkipInvalid(f, n, out, rowIdx) ==
  IF n = Len(f)
  THEN ReturnSuccess(out)
  ELSE IF f[n + 1].csvErr
  THEN ReturnFailure(out, Errorf("read record at line", rowIdx,
                                 Errorf("csv.ParseError", 0, NoError)))
  ELSE IF parseRecord(ReadFields(f[n + 1])).err # NoError
  THEN ParseLoopSkipInvalid(f, n + 1, out, rowIdx + 1)
  ELSE ParseLoopSkipInvalid(f, n + 1,
                 AppendSlice(out, parseRecord(ReadFields(f[n + 1])).tx),
                 rowIdx + 1)

\* The loop of Parse from the record after the n-th: out = append(out, tx).
RECURSIVE ParseLoop(_, _, _, _)
ParseLoop(f, n, out, rowIdx) ==
  IF n = Len(f)
  THEN ReturnSuccess(out)
  ELSE IF f[n + 1].csvErr
  THEN ReturnFailure(out, Errorf("read record at line", rowIdx,
                                 Errorf("csv.ParseError", 0, NoError)))
  ELSE IF parseRecord(ReadFields(f[n + 1])).err # NoError
  THEN ReturnFailure(out, Errorf("line", rowIdx,
                                 parseRecord(ReadFields(f[n + 1])).err))
  ELSE ParseLoop(f, n + 1,
                 AppendSlice(out, parseRecord(ReadFields(f[n + 1])).tx),
                 rowIdx + 1)

\* CSVParser.Parse
Parse(f) ==
  IF f = <<>>
  THEN ReturnFailure(NilSlice, Errorf("read header", 0, EOF))
  ELSE IF f[1].csvErr
  THEN ReturnFailure(NilSlice,
                     Errorf("read header", 0, Errorf("csv.ParseError", 0, NoError)))
  ELSE IF validateHeader(ReadFields(f[1])) # NoError
  THEN ReturnFailure(NilSlice, validateHeader(ReadFields(f[1])))
  ELSE ParseLoop(f, 1, NilSlice, 2)

\* GetAllTransactions on an opened stream
GetAllTransactions(f) ==
  IF Parse(f).err # NoError
  THEN [records |-> NilSlice,
        err |-> NewParseError("failed to parse CSV", Parse(f).err)]
  ELSE Parse(f)

\* var filteredTransactions ...; for ... { if Year() == year && Month() ==
\* month { append } }
RECURSIVE FilterByPeriod(_, _, _, _, _)
FilterByPeriod(all, i, year, month, filtered) ==
  IF i > Len(all) THEN filtered
  ELSE FilterByPeriod(all, i + 1, year, month,
         IF all[i].Date.Y = year /\ all[i].Date.M = month
         THEN AppendSlice(filtered, all[i])
         ELSE filtered)

\* TransactionServiceImpl.GetTransactionsByPeriod on an opened stream
GetTransactionsByPeriod(f, year, month) ==
  IF ValidatePeriod(year, month) # NoError
  THEN [records |-> NilSlice, err |-> ValidatePeriod(year, month)]
  ELSE IF GetAllTransactions(f).err # NoError
  THEN [records |-> NilSlice, err |-> GetAllTransactions(f).err]
  ELSE [records |->
          SliceStable(FilterByPeriod(GetAllTransactions(f).records.elems, 1,
                                     year, month, NilSlice)),
        err |-> NoError]

(***************************************************************************)
(* Functions of the program called on their own, as the unit tests call    *)
(* them: call holds the function, its arguments and, once it has returned, *)
(* what it returned.                                                       *)
(***************************************************************************)
\* The strings of at most n characters of an alphabet.
Texts(alphabet, n) == UNION {[1..k -> alphabet] : k \in 0..n}

Invoke(fn, args) == [fn |-> fn, args |-> args, returned |-> FALSE, ret |-> <<>>]

\* domain.NewTransaction(date, amount, content)
NewTransactionCalls ==
  {Invoke("NewTransaction", [date |-> d, amount |-> a, content |-> c]) :
     d \in {Date(2025, 1, 1), ZeroDate},
     a \in {MinInt64, 0, 3},
     c \in Texts({" ", "\t", "a"}, MaxTextLen)}

\* A buggy variant: the content is checked trimmed but stored as given.
NewTransactionReturnsStoredUntrimmed ==
  /\ call.fn = "NewTransaction" /\ ~call.returned
  /\ call' = [call EXCEPT
                !.returned = TRUE,
                !.ret = IF NewTransaction(call.args.date, call.args.amount,
                                          call.args.content).err # NoError
                        THEN NewTransaction(call.args.date, call.args.amount,
                                            call.args.content)
                        ELSE [tx |-> Transaction(call.args.date, call.args.amount,
                                                 call.args.content),
                              err |-> NoError]]
  /\ UNCHANGED <<peer, evals, req, ctx, pc, file, openCalls, opens, closes,
                 pos, transactions, rowIndex, parseRet, svcRet, statement,
                 writes, outFile, outDoc, genErr>>

NewTransactionReturns ==
  /\ call.fn = "NewTransaction" /\ ~call.returned
  /\ call' = [call EXCEPT
                !.returned = TRUE,
                !.ret = NewTransaction(call.args.date, call.args.amount,
                                       call.args.content)]
  /\ UNCHANGED <<peer, evals, req, ctx, pc, file, openCalls, opens, closes,
                 pos, transactions, rowIndex, parseRet, svcRet, statement,
                 writes, outFile, outDoc, genErr>>

\* streamingParseRecord(record): records of no, two, three and four fields;
\* the fields of a three-field record are dates, amounts and contents that
\* pass or fail each of the decoder's checks.
DateTexts ==
  {Jan05, <<" ">> \o Jan05 \o <<" ">>, <<>>, <<" ">>,
   <<"2", "0", "2", "5", "/", "1", "/", "5">>,
   <<"2", "0", "2", "5", "/", "0", "2", "/", "3", "0">>,
   <<"2", "0", "2", "5", "-", "0", "1", "-", "0", "5">>}

AmountTexts ==
  {<<"3">>, <<"-", "2">>, <<"+", "3">>, <<" ", "0", " ">>, <<>>, <<"\t">>,
   <<"1", "x">>, <<"-">>, <<"1", ".", "5">>,
   FormatInt(MaxInt64), FormatInt(MinInt64),
   FormatInt(MaxInt64 + 1), FormatInt(MinInt64 - 1)}

ContentTexts == {<<"a">>, <<" ", "a", " ">>, <<>>, <<" ">>}

ParseRecordCalls ==
  {Invoke("streamingParseRecord", [record |-> r]) :
     r \in {<<>>, <<Jan05, <<"3">>>>, <<Jan05, <<"3">>, <<"a">>, <<"b">>>>,
            <<<<>>, <<"1", "x">>>>, <<<<>>, <<>>, <<>>, <<>>>>}
             \cup {<<d, a, c>> : d \in DateTexts, a \in AmountTexts,
                                 c \in ContentTexts}}

ParseRecordReturns ==
  /\ call.fn = "streamingParseRecord" /\ ~call.returned
  /\ call' = [call EXCEPT !.returned = TRUE,
                          !.ret = streamingParseRecord(call.args.record)]
  /\ UNCHANGED <<peer, evals, req, ctx, pc, file, openCalls, opens, closes,
                 pos, transactions, rowIndex, parseRet, svcRet, statement,
                 writes, outFile, outDoc, genErr>>

\* t.IsIncome(), t.IsExpense() and t.AbsAmount() on a transaction of every
\* amount an int64 holds.
TransactionMethodCalls ==
  {Invoke("Transaction methods", [tx |-> Transaction(Date(2025, 1, 1), a, <<"a">>)]) :
     a \in MinInt64..MaxInt64}

TransactionMethodsReturn ==
  /\ call.fn = "Transaction methods" /\ ~call.returned
  /\ call' = [call EXCEPT
                !.returned = TRUE,
                !.ret = [IsIncome |-> IsIncome(call.args.tx),
                         IsExpense |-> IsExpense(call.args.tx),
                         AbsAmount |-> AbsAmount(call.args.tx)]]
  /\ UNCHANGED <<peer, evals, req, ctx, pc, file, openCalls, opens, closes,
                 pos, transactions, rowIndex, parseRet, svcRet, statement,
                 writes, outFile, outDoc, genErr>>

\* fmt.Sprintf("%04d", n): the sign counts in the width.
Sprintf04d(n) == IF n < 0 THEN <<"-">> \o Pad(0 - n, 3) ELSE Pad(n, 4)

PeriodFailed(msg) ==
  [year |-> 0, month |-> 0, display |-> <<>>, err |-> Errorf(msg, 0, NoError)]

\* cli.ParsePeriod.  strconv.Atoi accepts a sign before the digits; the
\* four and two characters it is given never exceed the range of int.
ParsePeriod(period) ==
  IF Len(period) # 6
  THEN PeriodFailed("period must be in YYYYMM format")
  ELSE IF ~IntSyntaxOK(SubSeq(period, 1, 4))
  THEN PeriodFailed("invalid year in period")
  ELSE IF ~IntSyntaxOK(SubSeq(period, 5, 6))
  THEN PeriodFailed("invalid month in period")
  ELSE IF IntValue(SubSeq(period, 5, 6)) < 1 \/ IntValue(SubSeq(period, 5, 6)) > 12
  THEN PeriodFailed("month must be between 01 and 12")
  ELSE [year |-> IntValue(SubSeq(period, 1, 4)),
        month |-> IntValue(SubSeq(period, 5, 6)),
        display |-> Label(IntValue(SubSeq(period, 1, 4)),
                          IntValue(SubSeq(period, 5, 6))),
        err |-> NoError]

\* util.ParseYYYYMM: the same, with the display "%04d/%02d".
ParseYYYYMM(s) ==
  IF Len(s) # 6
  THEN PeriodFailed("expected YYYYMM")
  ELSE IF ~IntSyntaxOK(SubSeq(s, 1, 4))
  THEN PeriodFailed("strconv.ErrSyntax")
  ELSE IF ~IntSyntaxOK(SubSeq(s, 5, 6))
  THEN PeriodFailed("strconv.ErrSyntax")
  ELSE IF IntValue(SubSeq(s, 5, 6)) < 1 \/ IntValue(SubSeq(s, 5, 6)) > 12
  THEN PeriodFailed("month out of range")
  ELSE [year |-> IntValue(SubSeq(s, 1, 4)),
        month |-> IntValue(SubSeq(s, 5, 6)),
        display |-> Sprintf04d(IntValue(SubSeq(s, 1, 4))) \o <<"/">>
                      \o Pad(IntValue(SubSeq(s, 5, 6)), 2),
        err |-> NoError]

\* The period texts: a year part and a month part of digits, signs and
\* other characters, and texts that are too short or too long.
YearTexts ==
  {<<"2", "0", "2", "5">>, <<"0", "0", "1", "2">>, <<"0", "0", "0", "0">>,
   <<"9", "9", "9", "9">>, <<"+", "2", "0", "2">>, <<"-", "2", "0", "2">>,
   <<"2", "0", "x", "5">>, <<" ", "2", "0", "2">>, <<"2", "0", "2", "-">>}

MonthTexts ==
  {<<"0", "1">>, <<"1", "2">>, <<"0", "0">>, <<"1", "3">>, <<"9", "9">>,
   <<"+", "1">>, <<"-", "1">>, <<"+", "0">>, <<"1", "x">>, <<" ", "1">>,
   <<"1", "-">>}

PeriodTexts ==
  {y \o m : y \in YearTexts, m \in MonthTexts}
    \cup {<<>>, <<"2", "0", "2", "5", "1">>,
          <<"2", "0", "2", "5", "0", "1", "1">>,
          <<"i", "n", "v", "a", "l", "i", "d">>}

ParsePeriodCalls ==
  {Invoke(fn, [period |-> s]) :
     fn \in {"ParsePeriod", "ParseYYYYMM"}, s \in PeriodTexts}

ParsePeriodReturns ==
  /\ call.fn \in {"ParsePeriod", "ParseYYYYMM"} /\ ~call.returned
  /\ call' = [call EXCEPT
                !.returned = TRUE,
                !.ret = IF call.fn = "ParsePeriod"
                        THEN ParsePeriod(call.args.period)
                        ELSE ParseYYYYMM(call.args.period)]
  /\ UNCHANGED <<peer, evals, req, ctx, pc, file, openCalls, opens, closes,
                 pos, transactions, rowIndex, parseRet, svcRet, statement,
                 writes, outFile, outDoc, genErr>>

Calls ==
  NewTransactionCalls \cup ParseRecordCalls \cup TransactionMethodCalls
    \cup ParsePeriodCalls

InitCalls ==
  /\ req \in MonthlyRequests
  /\ ctx = "active"
  /\ pc = "Validate"
  /\ file = <<>>
  /\ openCalls = 0 /\ opens = 0 /\ closes = 0
  /\ pos = 0
  /\ transactions = NilSlice
  /\ rowIndex = 0
  /\ parseRet = NoReturn /\ svcRet = NoReturn
  /\ statement = <<>>
  /\ writes = 0
  /\ outFile = "untouched" /\ outDoc = <<>>
  /\ genErr = NoError
  /\ peer = NoPeer
  /\ evals = <<>>
  /\ call \in Calls

NextCalls ==
  \/ NewTransactionReturns
  \/ ParseRecordReturns
  \/ TransactionMethodsReturn
  \/ ParsePeriodReturns

SpecCalls == InitCalls /\ [][NextCalls]_vars

\* ParseWithFilter run from its first statement to its return with nothing
\* else running and the context never done: the loop ...
RECURSIVE LoopAlone(_, _, _, _, _)
LoopAlone(f, rq, n, txs, rowIdx) ==
  IF n = Len(f)
  THEN ReturnSuccess(txs)
  ELSE IF f[n + 1].csvErr
  THEN ReturnFailure(txs, Errorf("read record at line", rowIdx,
                                 Errorf("csv.ParseError", 0, NoError)))
  ELSE IF RecordStep(ReadFields(f[n + 1]), txs, rowIdx, rq).err # NoError
  THEN ReturnFailure(txs, RecordStep(ReadFields(f[n + 1]), txs, rowIdx, rq).err)
  ELSE LoopAlone(f, rq, n + 1,
                 RecordStep(ReadFields(f[n + 1]), txs, rowIdx, rq).txs,
                 RecordStep(ReadFields(f[n + 1]), txs, rowIdx, rq).rowIndex)

\* ... and the whole call.
ParseWithFilterAlone(f, rq) ==
  IF f = <<>>
  THEN ReturnFailure(NilSlice, Errorf("read header", 0, EOF))
  ELSE IF f[1].csvErr
  THEN ReturnFailure(NilSlice,
                     Errorf("read header", 0, Errorf("csv.ParseError", 0, NoError)))
  ELSE IF streamingValidateHeader(ReadFields(f[1])) # NoError
  THEN ReturnFailure(NilSlice, streamingValidateHeader(ReadFields(f[1])))
  ELSE LoopAlone(f, rq, 1, NilSlice, 2)

(***************************************************************************)
(* Vocabulary of the properties.                                         *)
(***************************************************************************)
\* ParseWithFilter was called and has returned.
ParseReturned == opens = 1 /\ pc \notin {"ReadHeader", "Poll", "Read"}

\* GetTransactionsBy...Optimized has returned.
ServiceReturned == pc \in {"Returned", "Write", "Done"}

\* Row i of the stream (i >= 2; the header is row 1) is a valid data row.
\* What the decoder makes of each row of the pool.
Decoded == [r \in RowPool |-> streamingParseRecord(ReadFields(r))]

RowValid(i) ==
  /\ ~file[i].csvErr
  /\ Decoded[file[i]].err = NoError

RowRecord(i) == Decoded[file[i]].tx

HeaderValid ==
  /\ file # <<>>
  /\ ~file[1].csvErr
  /\ streamingValidateHeader(ReadFields(file[1])) = NoError

AllRowsValid == \A i \in 2..Len(file) : RowValid(i)

\* The predicate of the request.
Keep(t) == filterFunc(t, req)

\* The decoded records of rows 2..n, in file order.
RecordsUpTo(n) == [i \in 1..(n - 1) |-> RowRecord(i + 1)]

\* The records of the whole stream that satisfy the predicate, in file order.
MatchingRecords == SelectSeq(RecordsUpTo(Len(file)), Keep)

IsCtxErr(err) == err \in {ContextCanceled, ContextDeadlineExceeded}

C2_FailFast ==
  (ParseReturned /\ \E i \in 2..Len(file) : ~RowValid(i))
    => /\ parseRet.err # NoError
       /\ parseRet.records = NilSlice

\* The parse failed on the last of three rows with two matching records
\* already accumulated.
C2_Witness ==
  /\ ParseReturned /\ HeaderValid /\ ctx = "active"
  /\ Len(file) = 4 /\ pos = 4 /\ ~RowValid(4)
  /\ Len(transactions.elems) = 2
  /\ parseRet.err # NoError
  /\ parseRet.records = NilSlice

(***************************************************************************)
(* C3.  When the poll of the read loop finds the context done, the parse   *)
(* returns the context's error and no records, whatever was accumulated.   *)
(***************************************************************************)
C3_CancelDiscards ==
  [][(pc = "Poll" /\ ctx # "active")
       => /\ pc' = "Parsed"
          /\ parseRet'.err = CtxErr
          /\ parseRet'.records = NilSlice]_vars

\* A cancelled parse that had accumulated two matching records.
C3_Witness ==
  /\ pc = "Parsed" /\ IsCtxErr(parseRet.err)
  /\ Len(transactions.elems) = 2
  /\ parseRet.records = NilSlice

(***************************************************************************)
(* C4.  Filtering happens before accumulation: in every state of the parse *)
(* the accumulator holds only records that satisfy the predicate, and as   *)
(* many as there are matching records among the rows decoded so far.       *)
(***************************************************************************)
C4_AccumulatorMatchesOnly ==
  (opens = 1 /\ pos >= 1)
    => /\ \A i \in 1..Len(transactions.elems) : Keep(transactions.elems[i])
       /\ Len(transactions.elems)
            = Cardinality({i \in 2..pos : RowValid(i) /\ Keep(RowRecord(i))})

\* Mid-parse: three rows decoded, one of them kept.
C4_Witness ==
  /\ pc = "Poll" /\ pos = 4
  /\ \A i \in 2..4 : RowValid(i)
  /\ Len(transactions.elems) = 1

(***************************************************************************)
(* C5.  The records GetTransactionsBy...Optimized returns are the matching *)
(* records ordered by date, newest first, records of the same date in      *)
(* their file order.                                                       *)
(***************************************************************************)
DateKey(d) == d.Y * 10000 + d.M * 100 + d.D

DatesOf(s) == {s[i].Date : i \in 1..Len(s)}

NewestOf(S) == CHOOSE d \in S : \A e \in S : DateKey(e) <= DateKey(d)

\* The records of s grouped by date, newest date first, each group in the
\* order of s.
RECURSIVE GroupedNewestFirst(_, _)
GroupedNewestFirst(s, S) ==
  IF S = {} THEN <<>>
  ELSE LET d == NewestOf(S)
           OnDay(t) == t.Date = d
       IN SelectSeq(s, OnDay) \o GroupedNewestFirst(s, S \ {d})

StableNewestFirst(s) == GroupedNewestFirst(s, DatesOf(s))

C5_SortedStable ==
  (ServiceReturned /\ opens = 1 /\ svcRet.err = NoError)
    => svcRet.records.elems = StableNewestFirst(MatchingRecords)

\* Three records returned in an order that is not the file order, two of
\* them of the same date.
C5_Witness ==
  /\ ServiceReturned /\ opens = 1 /\ svcRet.err = NoError
  /\ Len(svcRet.records.elems) = 3
  /\ svcRet.records.elems # parseRet.records.elems
  /\ \E i \in 1..2 :
       /\ svcRet.records.elems[i].Date = svcRet.records.elems[i + 1].Date
       /\ svcRet.records.elems[i] # svcRet.records.elems[i + 1]

(***************************************************************************)
(* C6.  The totals are the sums of the amounts: totalIncome is the sum of  *)
(* all amounts > 0 and totalExpenditure the sum of all amounts < 0 of the  *)
(* records given; an amount of 0 changes neither.                          *)
(***************************************************************************)
\* The sum, as a mathematical integer, of the amounts of s that satisfy
\* the sign test.
RECURSIVE SumOfPositive(_)
SumOfPositive(s) ==
  IF s = <<>> THEN 0
  ELSE (IF Head(s).Amount > 0 THEN Head(s).Amount ELSE 0) + SumOfPositive(Tail(s))

RECURSIVE SumOfNegative(_)
SumOfNegative(s) ==
  IF s = <<>> THEN 0
  ELSE (IF Head(s).Amount < 0 THEN Head(s).Amount ELSE 0) + SumOfNegative(Tail(s))

C6_TotalsAreSums ==
  statement # <<>>
    => /\ statement[1].TotalIncome = SumOfPositive(svcRet.records.elems)
       /\ statement[1].TotalExpenditure = SumOfNegative(svcRet.records.elems)

(***************************************************************************)
(* C7.  Whatever 64-bit amounts the records carry, the statement has       *)
(* total_income >= 0 and total_expenditure <= 0.                           *)
(***************************************************************************)
C7_TotalsSigns ==
  statement # <<>>
    => /\ statement[1].TotalIncome >= 0
       /\ statement[1].TotalExpenditure <= 0

(***************************************************************************)
(* C8.  Source.Open is called at most once per request; Close is called    *)
(* only on a stream that was opened, at most once, and exactly once by the *)
(* time GetTransactionsBy...Optimized has returned, on every exit path.    *)
(***************************************************************************)
C8_OpenCloseBalanced ==
  /\ openCalls <= 1
  /\ opens <= openCalls
  /\ closes <= opens
  /\ ServiceReturned => closes = opens

\* A failing exit (header, row or cancellation) with the stream closed.
C8_Witness ==
  /\ pc = "Returned"
  /\ opens = 1 /\ closes = 1
  /\ svcRet.err # NoError

(***************************************************************************)
(* C9.  No statement file is written on a failure path: when the request   *)
(* returns an error, it has neither created nor modified the output file.  *)
(***************************************************************************)
C9_NoFileOnFailure ==
  (pc = "Done" /\ genErr # NoError) => outFile = "untouched"

(***************************************************************************)
(* C10.  The header is accepted if and only if it has exactly three fields *)
(* that, a leading byte-order mark stripped from the first, equal date,    *)
(* amount, content in this order, ignoring case and surrounding white      *)
(* space.                                                                  *)
(***************************************************************************)
ExactlyThreeColumns(header) ==
  /\ Len(header) = 3
  /\ EqualFold(TrimSpace(TrimPrefixBOM(header[1])), streamingColDate)
  /\ EqualFold(TrimSpace(header[2]), streamingColAmount)
  /\ EqualFold(TrimSpace(header[3]), streamingColContent)

\* The parse returned one of the two header errors.
HeaderRejected ==
  /\ ParseReturned /\ pos = 1 /\ parseRet.err # NoError
  /\ parseRet.err[1].msg
       \in {"invalid header: expected 3 columns", "unexpected header"}

C10_HeaderExactlyThree ==
  (opens = 1 /\ pos >= 1 /\ ~file[1].csvErr)
    => (~HeaderRejected <=> ExactlyThreeColumns(ReadFields(file[1])))

(***************************************************************************)
(* C11.  The date-range filter is inclusive on both ends: while the parse  *)
(* of a date-range request runs, the accumulator holds exactly the decoded *)
(* records dated d with start <= d <= end; records dated start or end are  *)
(* kept, records dated the day before start or the day after end are not. *)
(***************************************************************************)
\* start <= d <= end on the calendar, for the range of the request.
InRange(t) ==
  /\ DateKey(req.startDate) <= DateKey(t.Date)
  /\ DateKey(t.Date) <= DateKey(req.endDate)

C11_RangeInclusive ==
  (req.kind = "range" /\ pc \in {"Poll", "Read"})
    => transactions.elems = SelectSeq(RecordsUpTo(pos), InRange)

\* Three rows decoded: one dated the start of the range and one dated its
\* end, both kept, and one outside the range, dropped.
C11_Witness ==
  /\ req.kind = "range" /\ pc = "Poll" /\ pos = 4
  /\ req.startDate # req.endDate
  /\ \E i, j, k \in 2..4 :
       /\ RowRecord(i).Date = req.startDate
       /\ RowRecord(j).Date = req.endDate
       /\ ~InRange(RowRecord(k))
       /\ transactions.elems = <<RowRecord(i), RowRecord(j)>>

(***************************************************************************)
(* C12.  A date range with start later than end is not an error:           *)
(* GetTransactionsByDateRangeOptimized never answers it with a validation  *)
(* error; on a valid stream (parse not cancelled) it returns success with  *)
(* zero records, and on a stream with an invalid row it fails.             *)
(***************************************************************************)
StartAfterEnd ==
  req.kind = "range" /\ DateKey(req.startDate) > DateKey(req.endDate)

C12_InvertedRangeMatchesNothing ==
  (StartAfterEnd /\ ServiceReturned)
    => /\ svcRet.err # NoError => svcRet.err[1].kind # ErrorTypeValidation
       /\ (opens = 1 /\ HeaderValid /\ AllRowsValid /\ ~IsCtxErr(parseRet.err))
            => (svcRet.err = NoError /\ Len(svcRet.records.elems) = 0)
       /\ (opens = 1 /\ HeaderValid /\ ~AllRowsValid /\ ~IsCtxErr(parseRet.err))
            => svcRet.err # NoError

\* Success with zero records on a stream of three valid rows, one of them
\* dated between the end and the start of the range.
C12_Witness ==
  /\ StartAfterEnd /\ ServiceReturned
  /\ svcRet.err = NoError /\ Len(svcRet.records.elems) = 0
  /\ Len(file) = 4
  /\ \E i \in 2..4 :
       /\ DateKey(req.endDate) <= DateKey(RowRecord(i).Date)
       /\ DateKey(RowRecord(i).Date) <= DateKey(req.startDate)

Rerun(now) ==
  LET txs == SliceStable(SliceOf(MatchingRecords))
      totals == CalculateTotalsOptimized(txs)
  IN IF "GeneratedAt" \in DOMAIN statement[1]
     THEN NewStatementGeneratedAt(req.periodDisplay, txs, totals.totalIncome,
                                  totals.totalExpenditure, now)
     ELSE NewStatement(req.periodDisplay, txs, totals.totalIncome,
                       totals.totalExpenditure)

C14_Idempotent ==
  statement # <<>> => \A now \in ClockReadings : Rerun(now) = statement[1]

(***************************************************************************)
(* C15.  A successful parse returns a sequence that is present (never      *)
(* nil), also when no record matches the predicate or the stream holds the *)
(* header only: the records of a success differ from the nil records of a  *)
(* failure.                                                                *)
(***************************************************************************)
C15_EmptyResultPresent ==
  (ParseReturned /\ parseRet.err = NoError)
    => (~parseRet.records.isNil
          /\ parseRet.records # ReturnFailure(transactions, EOF).records)

(***************************************************************************)
(* C16.  When decoding fails on the k-th data record (k >= 1, the header   *)
(* being row 1), the error ParseWithFilter returns is the decode error     *)
(* wrapped with row index k + 1, however many of the records before it     *)
(* matched the predicate.                                                  *)
(***************************************************************************)
\* The parse has read the k-th data record and its decoding failed.
DecodeFailedAt(k) ==
  /\ ParseReturned /\ HeaderValid
  /\ pos = k + 1
  /\ ~file[pos].csvErr
  /\ streamingParseRecord(ReadFields(file[pos])).err # NoError

C16_ErrorCarriesRowIndex ==
  \A k \in 1..(Len(file) - 1) :
    DecodeFailedAt(k)
      => /\ parseRet.err # NoError
         /\ parseRet.err[1] = Layer("error", "line", k + 1)
         /\ Tail(parseRet.err) = streamingParseRecord(ReadFields(file[k + 1])).err

\* Decoding fails on the third data record, after one record that matched
\* and one that did not.
C16_Witness ==
  /\ DecodeFailedAt(3)
  /\ Len(transactions.elems) = 1
  /\ parseRet.err[1].line = 4

(***************************************************************************)
(* C17.  Cancellation is polled at the start of every iteration of the     *)
(* read loop: from the moment cancellation is signalled, ParseWithFilter   *)
(* reads at most one further row before it returns, and if a data row was  *)
(* still unread at that moment the parse never returns a success.          *)
(***************************************************************************)
Signalled == ctx # "active"

\* A data row of the opened stream has not been read yet.
DataRowUnread == opens = 1 /\ pos < Len(file) /\ Len(file) >= 2

C17_PolledEveryIteration ==
  /\ \A k \in 0..(MaxRows + 1) :
       [](Signalled /\ pos = k => [](pos <= k + 1))
  /\ [](Signalled /\ DataRowUnread
          => [](ParseReturned => parseRet.err # NoError))

\* Cancellation was signalled after the poll of an iteration: the row of
\* that iteration, the second data row, was read, and the next poll has
\* made the parse return the cancellation error with a row still unread.
C17_Witness ==
  /\ Signalled /\ pc = "Parsed"
  /\ pos = 3 /\ Len(file) = 4
  /\ Len(transactions.elems) = 2
  /\ parseRet = ReturnFailure(transactions, CtxErr)

(***************************************************************************)
(* C18.  ParseWithFilter invoked with a context that is already cancelled  *)
(* returns exactly context.Canceled and nil records, whatever the stream,  *)
(* without decoding a data row: when the context is cancelled before the   *)
(* header is read, every return of the parse is that one.                  *)
(***************************************************************************)
C18_AlreadyCancelled ==
  [][(ctx = "canceled" /\ pc \in {"ReadHeader", "Poll"} /\ pos <= 1
        /\ pc' = "Parsed")
       => (parseRet' = [records |-> NilSlice, err |-> ContextCanceled]
             /\ pos' <= 1)]_vars

(***************************************************************************)
(* C19.  Opening the byte source is interruptible: Source.Open called with *)
(* a context that is already cancelled (or past its deadline) returns an   *)
(* error and no stream, also when the resource exists and is readable.     *)
(***************************************************************************)
C19_OpenInterruptible ==
  [][(pc = "Open" /\ ctx # "active")
       => (opens' = opens /\ file' = file /\ svcRet'.err # NoError)]_vars

(***************************************************************************)
(* C20.  When the parse was aborted because cancellation or the deadline   *)
(* was observed, the error GetTransactionsBy...Optimized returns is of     *)
(* kind Cancelled: by its kind it is not a parse error.                    *)
(***************************************************************************)
C20_CancelledKind ==
  (ServiceReturned /\ opens = 1 /\ IsCtxErr(parseRet.err))
    => (svcRet.err # NoError /\ ~IsParseError(svcRet.err))

(***************************************************************************)
(* C21.  Two ParseWithFilter calls running at the same time, each on its   *)
(* own stream with its own predicate, are independent: under every         *)
(* interleaving of their steps a call whose context is not done returns    *)
(* exactly what it returns when run alone, and a call whose context is     *)
(* done returns that or the context's error.                               *)
(***************************************************************************)
PeerCtxErr ==
  IF peer.ctx = "deadline" THEN ContextDeadlineExceeded ELSE ContextCanceled

C21_ConcurrentCallsIndependent ==
  /\ (pc = "Parsed" /\ ctx = "active")
       => parseRet = ParseWithFilterAlone(file, req)
  /\ (pc = "Parsed" /\ ctx # "active")
       => parseRet \in {ParseWithFilterAlone(file, req),
                        ReturnFailure(transactions, CtxErr)}
  /\ (peer.pc = "Parsed" /\ peer.ctx = "active")
       => peer.parseRet = ParseWithFilterAlone(peer.file, peer.req)
  /\ (peer.pc = "Parsed" /\ peer.ctx # "active")
       => peer.parseRet \in {ParseWithFilterAlone(peer.file, peer.req),
                             ReturnFailure(peer.transactions, PeerCtxErr)}

\* Both calls have returned, each with records of its own: the request's
\* call the one January row of its stream, the peer both rows of its range,
\* while the peer was still reading when the request's call returned.
C21_Witness ==
  /\ pc = "Parsed" /\ peer.pc = "Parsed"
  /\ ctx = "active" /\ peer.ctx = "active"
  /\ file = <<HeaderPlain, RowSalary, RowRent, RowGrocery>>
  /\ peer.file = file
  /\ peer.req.kind = "range"
  /\ Len(parseRet.records.elems) = 2
  /\ Len(peer.parseRet.records.elems) = 3
  /\ parseRet.records.elems # peer.parseRet.records.elems

(***************************************************************************)
(* C22.  NewTransaction returns an error and the zero Transaction when the *)
(* content is empty or only white space; otherwise it returns no error and *)
(* a Transaction with the date and the amount given and with a Content     *)
(* that is not empty and is the input without its leading and trailing     *)
(* white space.  Every record the decoder produces has such a Content.     *)
(***************************************************************************)
OnlyWhiteSpace(s) == \A i \in 1..Len(s) : s[i] \in WhiteSpace

\* c is s without leading and trailing white space.
IsTrimmed(c, s) ==
  /\ c # <<>> => (c[1] \notin WhiteSpace /\ c[Len(c)] \notin WhiteSpace)
  /\ \E i \in 0..Len(s) :
       /\ i + Len(c) <= Len(s)
       /\ SubSeq(s, i + 1, i + Len(c)) = c
       /\ OnlyWhiteSpace(SubSeq(s, 1, i))
       /\ OnlyWhiteSpace(SubSeq(s, i + Len(c) + 1, Len(s)))

C22_ContentNonEmptyTrimmed ==
  /\ (call.fn = "NewTransaction" /\ call.returned)
       => IF OnlyWhiteSpace(call.args.content)
          THEN call.ret.err # NoError /\ call.ret.tx = ZeroTransaction
          ELSE /\ call.ret.err = NoError
               /\ call.ret.tx.Date = call.args.date
               /\ call.ret.tx.Amount = call.args.amount
               /\ call.ret.tx.Content # <<>>
               /\ IsTrimmed(call.ret.tx.Content, call.args.content)
  /\ \A r \in RowPool :
       streamingParseRecord(ReadFields(r)).err = NoError
         => /\ streamingParseRecord(ReadFields(r)).tx.Content # <<>>
            /\ IsTrimmed(streamingParseRecord(ReadFields(r)).tx.Content,
                         r.fields[3])

\* NewTransaction(0001/01/01, MinInt64, " a\t") has returned the record
\* with the content "a".
C22_Witness ==
  /\ call.fn = "NewTransaction" /\ call.returned
  /\ call.args.content = <<" ", "a", "\t">>
  /\ call.args.amount = MinInt64
  /\ call.ret = [tx |-> Transaction(call.args.date, MinInt64, <<"a">>),
                 err |-> NoError]

(***************************************************************************)
(* C23.  The statement NewStatement builds carries the period label and    *)
(* the totals it was given; its transactions list is present (also for no  *)
(* records, and for a nil slice of records), has one projection per record *)
(* in the order of the records, the i-th the text of the i-th record's     *)
(* date and amount with its content; a transaction count, where the        *)
(* statement has one, is the number of records.                            *)
(***************************************************************************)
\* The projection p is the text of the record t.
ProjectionOf(p, t) ==
  /\ TimeParseOK(p.Date) /\ TimeParse(p.Date) = t.Date
  /\ ParseIntOK(p.Amount) /\ IntValue(p.Amount) = t.Amount
  /\ p.Content = t.Content

C23_StatementProjection ==
  statement # <<>>
    => /\ statement[1].Period = req.periodDisplay
       /\ statement[1].TotalIncome
            = CalculateTotalsOptimized(svcRet.records).totalIncome
       /\ statement[1].TotalExpenditure
            = CalculateTotalsOptimized(svcRet.records).totalExpenditure
       /\ ~statement[1].Transactions.isNil
       /\ Len(statement[1].Transactions.elems) = Len(svcRet.records.elems)
       /\ \A i \in 1..Len(svcRet.records.elems) :
            ProjectionOf(statement[1].Transactions.elems[i],
                         svcRet.records.elems[i])
       /\ "TransactionCount" \in DOMAIN statement[1]
            => statement[1].TransactionCount = Len(MatchingRecords)

\* A statement of three records that are not in file order, two of them
\* different records of the same date.
C23_Witness ==
  /\ statement # <<>>
  /\ Len(statement[1].Transactions.elems) = 3
  /\ svcRet.records.elems # parseRet.records.elems
  /\ statement[1].Transactions.elems[1] # statement[1].Transactions.elems[2]
  /\ statement[1].Transactions.elems[2] # statement[1].Transactions.elems[3]
  /\ statement[1].TotalExpenditure < 0

(***************************************************************************)
(* C24.  streamingParseRecord accepts a row if and only if it has exactly  *)
(* three fields, none empty after trimming, a date that time.Parse accepts *)
(* as YYYY/MM/DD and an amount that ParseInt accepts as a base-10 int64;   *)
(* the record then holds the parsed date and amount and the trimmed        *)
(* content.  Otherwise the error is that of the first check that fails, in *)
(* the order field count, empty field, date, amount.                       *)
(***************************************************************************)
\* The message of the first failing check of a row; "" when none fails.
FirstFailingCheck(r) ==
  IF Len(r) # 3 THEN "invalid record: expected 3 columns"
  ELSE IF \E i \in 1..3 : OnlyWhiteSpace(r[i]) THEN "empty column in record"
  ELSE IF ~TimeParseOK(TrimSpace(r[1])) THEN "failed to parse date"
  ELSE IF ~ParseIntOK(TrimSpace(r[2])) THEN "failed to parse amount"
  ELSE ""

C24_DecoderAcceptsIff ==
  (call.fn = "streamingParseRecord" /\ call.returned)
    => IF FirstFailingCheck(call.args.record) = ""
       THEN /\ call.ret.err = NoError
            /\ call.ret.tx.Date = TimeParse(TrimSpace(call.args.record[1]))
            /\ call.ret.tx.Amount = IntValue(TrimSpace(call.args.record[2]))
            /\ IsTrimmed(call.ret.tx.Content, call.args.record[3])
       ELSE /\ call.ret.err # NoError
            /\ call.ret.err[1].msg = FirstFailingCheck(call.args.record)
            /\ call.ret.tx = ZeroTransaction

\* A row on which every check but the first would fail, one on which the
\* empty field comes with an unparseable date and amount: here the latter,
\* rejected for the empty column.
C24_Witness ==
  /\ call.fn = "streamingParseRecord" /\ call.returned
  /\ call.args.record
       = <<<<"2", "0", "2", "5", "/", "1", "/", "5">>, <<"1", "x">>, <<" ">>>>
  /\ call.ret.err[1].msg = "empty column in record"

(***************************************************************************)
(* C25.  The kind of a row error follows the taxonomy: two rejected rows   *)
(* get errors of the same kind exactly when both are malformed (wrong      *)
(* column count, empty required field) or both are parse failures          *)
(* (unparseable date or amount).                                           *)
(***************************************************************************)
\* The kind the taxonomy gives to the failure of a check.
TaxonomyKind(check) ==
  IF check \in {"invalid record: expected 3 columns", "empty column in record"}
  THEN "Malformed"
  ELSE "ParseFailure"

\* One rejected row for each check of the decoder.
RejectedRows ==
  {<<Jan05, <<"3">>>>,
   <<Jan05, <<"3">>, <<>>>>,
   <<<<"2", "0", "2", "5", "/", "1", "/", "5">>, <<"3">>, <<"a">>>>,
   <<Jan05, <<"1", "x">>, <<"a">>>>}

C25_RowErrorKinds ==
  (call.fn = "streamingParseRecord" /\ call.returned
     /\ call.ret.err # NoError)
    => \A r \in RejectedRows :
         (TaxonomyKind(FirstFailingCheck(call.args.record))
            = TaxonomyKind(FirstFailingCheck(r)))
           <=> (call.ret.err[1].kind = streamingParseRecord(r).err[1].kind)

(***************************************************************************)
(* C26.  Single sequential pass.  The predicate has been called on the     *)
(* rows 2, 3, ... in that order, once each, all of them rows that decoded, *)
(* and on every row read so far that decoded; the stream is read one       *)
(* record at a time, front to back; and once ParseWithFilter has returned  *)
(* (after the end of the stream, a header failure, a decode failure or an  *)
(* observed cancellation) no row is read and the predicate is not called.  *)
(***************************************************************************)
C26_SinglePass ==
  /\ [](opens = 1
          => /\ evals = [i \in 1..Len(evals) |-> i + 1]
             /\ \A i \in 1..Len(evals) : evals[i] <= pos /\ RowValid(evals[i])
             /\ Len(evals) = Cardinality({i \in 2..pos : RowValid(i)}))
  /\ [][/\ pos' \in {pos, pos + 1}
        /\ pos' # pos => pc \in {"ReadHeader", "Read"}
        /\ ParseReturned => (pos' = pos /\ evals' = evals)]_vars

\* The parse has returned the decode failure of the second of three rows:
\* the predicate was called on the first row only, the third was not read.
C26_Witness ==
  /\ pc = "Done" /\ opens = 1
  /\ Len(file) = 4 /\ pos = 3
  /\ RowValid(2) /\ ~RowValid(3) /\ RowValid(4)
  /\ evals = <<2>>

(***************************************************************************)
(* C27.  For every int64 amount, AbsAmount returns the absolute value of   *)
(* the amount, which is not negative; IsIncome and IsExpense are never     *)
(* both true, and both are false exactly when the amount is 0.             *)
(***************************************************************************)
C27_AbsAmountSigns ==
  (call.fn = "Transaction methods" /\ call.returned)
    => /\ call.ret.AbsAmount >= 0
       /\ call.ret.AbsAmount \in {call.args.tx.Amount, 0 - call.args.tx.Amount}
       /\ ~(call.ret.IsIncome /\ call.ret.IsExpense)
       /\ (~call.ret.IsIncome /\ ~call.ret.IsExpense)
            <=> call.args.tx.Amount = 0

(***************************************************************************)
(* C28.  ParsePeriod and ParseYYYYMM succeed if and only if the input is   *)
(* exactly six decimal digits of which the last two are a month 01..12;    *)
(* they then return that year and month and the label YYYY/MM, which is    *)
(* the first four digits, "/", and the last two digits.  Every other       *)
(* input (wrong length, a sign or another character that is no digit,      *)
(* month 00 or above 12) is rejected with an error.                        *)
(***************************************************************************)
SixDigitsWithMonth(s) ==
  /\ Len(s) = 6
  /\ AllDigits(s, 1, 6)
  /\ DecValue(s, 5, 6) \in 1..12

C28_ParsePeriodSixDigits ==
  (call.fn \in {"ParsePeriod", "ParseYYYYMM"} /\ call.returned)
    => IF SixDigitsWithMonth(call.args.period)
       THEN /\ call.ret.err = NoError
            /\ call.ret.year = DecValue(call.args.period, 1, 4)
            /\ call.ret.month = DecValue(call.args.period, 5, 6)
            /\ call.ret.display
                 = SubSeq(call.args.period, 1, 4) \o <<"/">>
                     \o SubSeq(call.args.period, 5, 6)
       ELSE call.ret.err # NoError

(***************************************************************************)
(* C29.  On the same stream, year and valid month, without cancellation,   *)
(* TransactionServiceImpl.GetTransactionsByPeriod and                      *)
(* GetTransactionsByPeriodOptimized either both fail or both succeed with  *)
(* the same records in the same order.                                     *)
(***************************************************************************)
C29_StandardOptimizedEquivalent ==
  (ServiceReturned /\ opens = 1 /\ ctx = "active" /\ req.kind = "period")
    => /\ (svcRet.err = NoError)
            <=> (GetTransactionsByPeriod(file, req.year, req.month).err = NoError)
       /\ svcRet.err = NoError
            => svcRet.records
                 = GetTransactionsByPeriod(file, req.year, req.month).records

\* Both paths have returned the same three records, sorted into an order
\* that is not the file order.
C29_Witness ==
  /\ ServiceReturned /\ opens = 1 /\ ctx = "active" /\ req.kind = "period"
  /\ svcRet.err = NoError
  /\ Len(svcRet.records.elems) = 3
  /\ svcRet.records.elems # parseRet.records.elems
  /\ GetTransactionsByPeriod(file, req.year, req.month).records = svcRet.records
  /\ Len(Parse(file).records.elems) = 3

(***************************************************************************)
(* C30.  Ordering of a generation request.  The writer is invoked at most  *)
(* once; when it has been invoked, the parse had succeeded, the stream had *)
(* been closed, and the document is the one built from the sorted matching *)
(* records and their totals.  A request whose transaction service          *)
(* succeeded ends with exactly one invocation of the writer; one whose     *)
(* validation, open or parse failed ends with none and with the output     *)
(* untouched.                                                              *)
(***************************************************************************)
C30_WriterOrdering ==
  /\ writes <= 1
  /\ writes = 1
       => /\ opens = 1 /\ ParseReturned /\ parseRet.err = NoError
          /\ closes = 1
          /\ svcRet.err = NoError
          /\ svcRet.records.elems = StableNewestFirst(MatchingRecords)
          /\ statement # <<>>
          /\ statement[1].Period = req.periodDisplay
          /\ Len(statement[1].Transactions.elems) = Len(svcRet.records.elems)
          /\ \A i \in 1..Len(svcRet.records.elems) :
               ProjectionOf(statement[1].Transactions.elems[i],
                            svcRet.records.elems[i])
          /\ statement[1].TotalIncome
               = CalculateTotalsOptimized(svcRet.records).totalIncome
          /\ statement[1].TotalExpenditure
               = CalculateTotalsOptimized(svcRet.records).totalExpenditure
          /\ outDoc \in {<<>>, statement}
  /\ (pc = "Done" /\ svcRet.err = NoError) => writes = 1
  /\ (pc = "Done" /\ svcRet.err # NoError)
       => (writes = 0 /\ outFile = "untouched" /\ genErr = svcRet.err)

\* A request by date range has ended with the statement of three records
\* written, the stream closed before, the records not in file order.
C30_Witness ==
  /\ pc = "Done" /\ req.kind = "range"
  /\ writes = 1 /\ closes = 1 /\ outFile = "written"
  /\ genErr = NoError
  /\ Len(outDoc[1].Transactions.elems) = 3
  /\ svcRet.records.elems # parseRet.records.elems

=============================================================================
